---- MODULE Spec2Model ----
(***************************************************************************)
(* Session authentication, customer resolution and cart reconciliation of  *)
(* the Telegram Mini App backend for WooCommerce.                          *)
(*                                                                         *)
(*   SpecResolve : WooCommerceService.find_or_create_customer_by_telegram_ *)
(*                 data, interleaved at every directory call               *)
(*   SpecAuth    : validate_init_data and the validate_telegram_data       *)
(*                 dependency                                              *)
(*   SpecCart    : get_user_cart (cart reconciliation)                     *)
(*   SpecCartUpdate : get_user_cart with update_user_cart requests of the  *)
(*                 same customer                                           *)
(*   SpecOrders  : get_my_order_details                                    *)
(*   SpecLifespan : lifespan of app/main.py and of app/main_v1.py          *)
(***************************************************************************)
EXTENDS Integers, Sequences, FiniteSets, TLC

VARIABLES
    directory,      \* customers held by the WooCommerce directory
    nextId,         \* next customer id the directory assigns
    pc,             \* per worker: position inside find_or_create_customer_by_telegram_data
    user_info,      \* per worker: the user_info argument of the running call
    callOf,         \* per worker: index of the running call in calls
    calls,          \* history of the resolve calls started so far
    header,         \* the X-Telegram-Init-Data header of the request: its key=value pairs
    bot_token,      \* settings.TELEGRAM_BOT_TOKEN
    now,            \* the wall clock read by validate_init_data
    authPc,         \* position of the request: "received", "passed", "rejected", "resolving"
    verdict,        \* what validate_init_data returned and logged
    response,       \* HTTP status raised by validate_telegram_data, 0 when none
    detail,         \* detail of the HTTPException raised by validate_telegram_data
    telegram_cart,  \* the customer's telegram_cart meta value in the directory
    catalog,        \* get_user_cart: the products WooCommerce answered get_products with
    lookup,         \* get_user_cart: how the get_products request ended
    cartPc,         \* position of the get_user_cart request
    saved_cart_items,   \* get_user_cart: the stored cart as loaded
    synced,         \* get_user_cart: synced_cart_items, sync_messages, is_changed
    cartResponse,   \* get_user_cart: status and body sent to the client
    background_tasks,   \* get_user_cart: the update_customer writes it scheduled
    previous,       \* the answer of the get_user_cart request before this one, when it
                    \* was a reconciled cart that the directory now stores
    products_requests,  \* get_user_cart: the include lists of its get_products calls
    updateResponse, \* update_user_cart: status and body sent, and whether the request
                    \* came after the get_user_cart response went out
    orders,         \* the orders WooCommerce holds
    order_id,       \* get_my_order_details: the order asked for
    current_customer_id,    \* get_my_order_details: the requester's customer id
    order_details,  \* get_my_order_details: what get_order returned
    orderPc,        \* position of the get_my_order_details request
    orderResponse,  \* get_my_order_details: status, detail and body sent
    app_module,     \* the application started: "main" (app/main.py) or "main_v1"
    webhook_url,    \* lifespan: whether settings.WEBHOOK_URL is set
    webhook,        \* whether Telegram holds a webhook for the bot
    lifespanPc,     \* position inside lifespan
    acquired,       \* number of WooCommerce HTTP clients created (WooCommerceService())
    released,       \* number of close_client calls
    served,         \* requests the application has served
    body_raised,    \* the application body ended with an exception
    shutdown_errors,    \* the shutdown steps that raised and were logged
    propagated      \* an exception left lifespan

resolveVars == <<directory, nextId, pc, user_info, callOf, calls>>

authVars == <<header, bot_token, now, authPc, verdict, response, detail>>

cartVars == <<telegram_cart, catalog, lookup, cartPc, saved_cart_items, synced,
              cartResponse, background_tasks, previous, products_requests,
              updateResponse>>

ordersVars == <<orders, order_id, current_customer_id, order_details, orderPc,
                orderResponse>>

lifespanVars == <<app_module, webhook_url, webhook, lifespanPc, acquired, released,
                  served, body_raised, shutdown_errors, propagated>>

vars == <<directory, nextId, pc, user_info, callOf, calls,
          header, bot_token, now, authPc, verdict, response, detail,
          telegram_cart, catalog, lookup, cartPc, saved_cart_items, synced,
          cartResponse, background_tasks, previous, products_requests,
          updateResponse,
          orders, order_id, current_customer_id, order_details, orderPc,
          orderResponse,
          app_module, webhook_url, webhook, lifespanPc, acquired, released, served,
          body_raised, shutdown_errors, propagated>>

----------------------------------------------------------------------------
(* Bounds *)

MaxCalls == 2           \* resolve calls started in one behaviour
MaxWorkers == 2         \* requests in flight at the same time
MaxCartLen == 2         \* entries of a stored cart
MaxQty == 2             \* quantity of a stored cart entry
MaxStock == 1           \* stock_quantity of a product

Workers == 1..MaxWorkers
TgIds == {0, 1, 2}      \* Telegram user ids offered to resolve; 0 is the falsy id
Usernames == {"ann", "bob"}     \* Telegram @usernames a request may carry

None == 0               \* Python None where a customer id is expected

NoUserInfo == [id |-> 0, username |-> ""]

NoCustomer == [id |-> 0, email |-> <<>>, username |-> <<>>, tg |-> "", tgname |-> ""]

----------------------------------------------------------------------------
(* find_or_create_customer_by_telegram_data: pure parts *)

\* customer_email = f"tg_{tg_user_id}@telegram.user"
CustomerEmail(tg_user_id) == <<"tg_", ToString(tg_user_id), "@telegram.user">>

\* customer_username = f"tg_user_{tg_user_id}"
CustomerUsername(tg_user_id) == <<"tg_user_", ToString(tg_user_id)>>

\* A record keyed on the Telegram @username instead of the numeric id.
NewCustomerDataByHandle(info) ==
    [email    |-> <<"tg_", info.username, "@telegram.user">>,
     username |-> <<"tg_user_", info.username>>,
     tg       |-> ToString(info.id),
     tgname   |-> info.username]

\* new_customer_data: email, username and the two meta_data entries
NewCustomerData(info) ==
    [email    |-> CustomerEmail(info.id),
     username |-> CustomerUsername(info.id),
     tg       |-> ToString(info.id),
     tgname   |-> info.username]

\* Finds the meta field on every customer.
HasTgIdMetaAlways(customer) == TRUE

\* has_tg_id_meta = any(meta.get('key') == '_telegram_user_id' ...)
HasTgIdMeta(customer) == customer.tg # ""

----------------------------------------------------------------------------
(* The directory (WooCommerce /customers) *)

RECURSIVE SortById(_)
SortById(S) ==
    IF S = {} THEN <<>>
    ELSE LET m == CHOOSE r \in S : \A q \in S : r.id <= q.id
         IN  <<m>> \o SortById(S \ {m})

\* GET customers?email=...&role=all : the list of matching customers
DirFindByEmail(dir, email) == SortById({r \in dir : r.email = email})

\* the error code the directory answers a POST customers with, "" when it accepts
DirCreateConflict(dir, data) ==
    IF \E r \in dir : r.email = data.email THEN "registration-error-email-exists"
    ELSE IF \E r \in dir : r.username = data.username THEN "registration-error-username-exists"
    ELSE ""

\* the structured error body of the directory: code and message at the top
\* level, with or without a "data" member
ErrorPayloads(code) ==
    { [code |-> code, message |-> "m", data |-> [status |-> 400]],
      [code |-> code, message |-> "m"] }

----------------------------------------------------------------------------
(* _request: what WooCommerceServiceError.details holds for an HTTP error *)

\* wc_error_details = wc_error.get("data", wc_error)
WcErrorDetails(wc_error) ==
    IF "data" \in DOMAIN wc_error THEN wc_error.data ELSE wc_error

\* e.details.get('code') in ('registration-error-email-exists', 'registration-error-username-exists')
IsRaceConflict(details) ==
    /\ "code" \in DOMAIN details
    /\ details.code \in {"registration-error-email-exists", "registration-error-username-exists"}

----------------------------------------------------------------------------
(* get_customer_by_email *)

\* Takes the first customer only when the list holds more than one.
FirstCustomerSkipsSingle(response_data) ==
    IF Len(response_data) > 1 THEN response_data[1] ELSE NoCustomer

\* if isinstance(response_data, list) and len(response_data) > 0: return response_data[0]
FirstCustomer(response_data) ==
    IF Len(response_data) > 0 THEN response_data[1] ELSE NoCustomer

\* the values get_customer_by_email can return: the first match when the
\* directory answers, None when _request raises WooCommerceServiceError (the
\* request timed out, the network failed)
GetCustomerByEmail(dir, email) ==
    { [customer |-> FirstCustomer(DirFindByEmail(dir, email)), failed |-> FALSE],
      [customer |-> NoCustomer, failed |-> TRUE] }

\* if existing_customer and existing_customer.get('id')
Found(customer) == customer # NoCustomer /\ customer.id # 0

----------------------------------------------------------------------------
(* urllib.parse: unquote and parse_qsl.  A string is a sequence of           *)
(* one-character strings.                                                   *)

\* the escape sequences that occur in the requests of the model
HexPairs == [p \in {<<"7","B">>, <<"7","D">>, <<"2","2">>, <<"3","A">>,
                    <<"2","5">>, <<"2","C">>} |->
                CASE p = <<"7","B">> -> "{"
                  [] p = <<"7","D">> -> "}"
                  [] p = <<"2","2">> -> "\""
                  [] p = <<"3","A">> -> ":"
                  [] p = <<"2","5">> -> "%"
                  [] p = <<"2","C">> -> ","]

\* unquote: every %XX becomes the character it encodes, one pass, left to right
RECURSIVE Unquote(_)
Unquote(s) ==
    IF s = <<>> THEN <<>>
    ELSE IF s[1] = "%" /\ Len(s) >= 3 /\ <<s[2], s[3]>> \in DOMAIN HexPairs
         THEN <<HexPairs[<<s[2], s[3]>>]>> \o Unquote(SubSeq(s, 4, Len(s)))
         ELSE <<s[1]>> \o Unquote(Tail(s))

\* parse_qsl decodes every value: '+' becomes a space, then unquote
UnquotePlus(s) == Unquote([i \in DOMAIN s |-> IF s[i] = "+" THEN " " ELSE s[i]])

\* original_pairs = parse_qsl(init_data, keep_blank_values=True); a hex
\* digest holds no escape sequence and is left as it is
ParseQsl(pairs) ==
    [i \in DOMAIN pairs |->
        [key |-> pairs[i].key,
         value |-> IF pairs[i].key = "hash" THEN pairs[i].value
                   ELSE UnquotePlus(pairs[i].value)]]

----------------------------------------------------------------------------
(* json.loads, for objects of string keys with digit or string values *)

Digits == {"0", "1", "2", "3", "4", "5", "6", "7", "8", "9"}

DigitValue(c) ==
    CASE c = "0" -> 0 [] c = "1" -> 1 [] c = "2" -> 2 [] c = "3" -> 3 [] c = "4" -> 4
      [] c = "5" -> 5 [] c = "6" -> 6 [] c = "7" -> 7 [] c = "8" -> 8 [] c = "9" -> 9

JsonFail == [ok |-> FALSE, num |-> FALSE, n |-> 0, text |-> <<>>, next |-> 0]

\* a string starting at s[i]: up to the next quotation mark
JsonString(s, i) ==
    IF i <= Len(s) /\ s[i] = "\"" /\ \E j \in (i+1)..Len(s) : s[j] = "\""
    THEN LET j == CHOOSE j \in (i+1)..Len(s) :
                    s[j] = "\"" /\ \A k \in (i+1)..(j-1) : s[k] # "\""
         IN  [ok |-> TRUE, num |-> FALSE, n |-> 0, text |-> SubSeq(s, i+1, j-1), next |-> j+1]
    ELSE JsonFail

\* a value starting at s[i]: one digit, or a string
JsonValue(s, i) ==
    IF i <= Len(s) /\ s[i] \in Digits
    THEN [ok |-> TRUE, num |-> TRUE, n |-> DigitValue(s[i]), text |-> <<>>, next |-> i+1]
    ELSE JsonString(s, i)

\* the members of an object from s[i] on; <<>> stands for a syntax error
RECURSIVE JsonMembers(_, _, _)
JsonMembers(s, i, acc) ==
    LET k == JsonString(s, i)
        v == JsonValue(s, k.next + 1)
        m == [key |-> k.text, num |-> v.num, n |-> v.n, text |-> v.text]
    IN  IF ~k.ok \/ k.next > Len(s) \/ s[k.next] # ":" \/ ~v.ok \/ v.next > Len(s)
        THEN <<>>
        ELSE IF s[v.next] = "}" /\ v.next = Len(s) THEN Append(acc, m)
        ELSE IF s[v.next] = "," THEN JsonMembers(s, v.next + 1, Append(acc, m))
        ELSE <<>>

\* a parsed value: a dict (its members in order, the last of equal keys wins
\* on lookup) or a plain string
StrValue(s) == [dict |-> FALSE, members |-> <<>>, text |-> s]

\* _parse_value without the second unquote
ParseValueNoUnquote(key, value) ==
    IF key \in {"user", "receiver", "chat"}
          /\ Len(value) >= 2 /\ value[1] = "{" /\ value[Len(value)] = "}"
          /\ JsonMembers(value, 2, <<>>) # <<>>
    THEN [dict |-> TRUE, members |-> JsonMembers(value, 2, <<>>), text |-> <<>>]
    ELSE StrValue(value)

\* _parse_value: decoded_value = unquote(value); json.loads for user,
\* receiver and chat when it looks like an object, else the decoded string
ParseValue(key, value) == ParseValueNoUnquote(key, Unquote(value))

\* 'id' in user_info
HasId(v) == v.dict /\ \E i \in DOMAIN v.members : v.members[i].key = <<"i", "d">>

\* user_info.get('id') of a dict that has it, as the string str() gives
IdOf(v) ==
    LET i == CHOOSE i \in DOMAIN v.members :
                /\ v.members[i].key = <<"i", "d">>
                /\ \A j \in DOMAIN v.members : v.members[j].key = <<"i", "d">> => j <= i
    IN  IF v.members[i].num THEN <<ToString(v.members[i].n)>> ELSE v.members[i].text

----------------------------------------------------------------------------
(* validate_init_data *)

MaxAgeSeconds == 3600

\* hmac.new(key, msg, hashlib.sha256): an injective function of key and message
HmacSha256(key, msg) == [key |-> key, msg |-> msg]

\* .hexdigest(); a digest with one character changed has tamper = 1
HexDigest(d) == [digest |-> d, tamper |-> 0]

\* some pair has this key (received_hash / auth_date_str is not None)
HasKey(pairs, key) == \E i \in DOMAIN pairs : pairs[i].key = key

\* the value of the last pair with this key: the loop overwrites earlier ones
LastValue(pairs, key) ==
    pairs[CHOOSE i \in DOMAIN pairs :
            /\ pairs[i].key = key
            /\ \A j \in DOMAIN pairs : pairs[j].key = key => j <= i].value

NotHashPair(p) == p.key # "hash"

\* data_pairs_for_check: every pair but the hash pairs, in the order received
DataPairsForCheck(pairs) == SelectSeq(pairs, NotHashPair)

\* position of a key under Python's string order
KeyRank(k) ==
    CASE k = "auth_date" -> 1 [] k = "hash" -> 2 [] k = "query_id" -> 3 [] k = "user" -> 4

\* sorted(data_pairs_for_check, key=lambda item: item[0]): stable
RECURSIVE SortedPairs(_)
SortedPairs(pairs) ==
    IF pairs = <<>> THEN <<>>
    ELSE LET i == CHOOSE i \in DOMAIN pairs :
                    /\ \A j \in DOMAIN pairs : KeyRank(pairs[i].key) <= KeyRank(pairs[j].key)
                    /\ \A j \in 1..(i-1) : KeyRank(pairs[j].key) > KeyRank(pairs[i].key)
         IN  <<pairs[i]>> \o
             SortedPairs(SubSeq(pairs, 1, i-1) \o SubSeq(pairs, i+1, Len(pairs)))

\* "\n".join(f"{key}={value}" for key, value in sorted_pairs)
RECURSIVE JoinLines(_)
JoinLines(pairs) ==
    IF pairs = <<>> THEN <<>>
    ELSE <<pairs[1].key, "=">> \o pairs[1].value \o
         (IF Len(pairs) > 1 THEN <<"\n">> \o JoinLines(Tail(pairs)) ELSE <<>>)

DataCheckString(pairs) == JoinLines(SortedPairs(DataPairsForCheck(pairs)))

\* calculated_hash
CalculatedHash(pairs, token) ==
    HexDigest(HmacSha256(HmacSha256("WebAppData", token), DataCheckString(pairs)))

\* int(auth_date_str): ok for a non-empty run of digits
IsInt(s) == s # <<>> /\ \A i \in DOMAIN s : s[i] \in Digits

RECURSIVE IntOf(_)
IntOf(s) == IF s = <<>> THEN 0 ELSE 10 * IntOf(SubSeq(s, 1, Len(s) - 1)) + DigitValue(s[Len(s)])

\* Counts the age limit itself as too old.
IsOutdatedAtLimit(time_diff, max_age_seconds) ==
    IF time_diff < 0 THEN FALSE ELSE time_diff >= max_age_seconds

\* is_outdated: time_diff < 0 only warns; elif time_diff > max_age_seconds
IsOutdated(time_diff, max_age_seconds) ==
    IF time_diff < 0 THEN FALSE ELSE time_diff > max_age_seconds

\* parsed_data_final: every pair but hash, through _parse_value
ParsedData(pairs) ==
    [none |-> FALSE,
     items |-> [i \in DOMAIN DataPairsForCheck(pairs) |->
                  [key |-> DataPairsForCheck(pairs)[i].key,
                   value |-> ParseValue(DataPairsForCheck(pairs)[i].key,
                                        DataPairsForCheck(pairs)[i].value)]]]

NoParsedData == [none |-> TRUE, items |-> <<>>]

\* what the except TelegramAuthError branch returns as parsed data
ParsedAfterError(pairs) ==
    IF DataPairsForCheck(pairs) # <<>> THEN ParsedData(pairs) ELSE NoParsedData

\* Looks at the age before the hash.
ResultAgeFirst(hash_match, is_outdated) ==
    IF is_outdated THEN [is_valid |-> FALSE, reason |-> "Stale"]
    ELSE IF hash_match THEN [is_valid |-> TRUE, reason |-> "ok"]
    ELSE [is_valid |-> FALSE, reason |-> "SignatureMismatch"]

\* Step 7: the returned flag and the condition that is logged
Result(hash_match, is_outdated) ==
    IF hash_match
    THEN IF is_outdated THEN [is_valid |-> FALSE, reason |-> "Stale"]
         ELSE [is_valid |-> TRUE, reason |-> "ok"]
    ELSE [is_valid |-> FALSE, reason |-> "SignatureMismatch"]

\* Looks for auth_date before it looks for the hash.
AuthErrorAuthDateFirst(original_pairs) ==
    IF ~HasKey(original_pairs, "auth_date") THEN "MissingAuthDate"
    ELSE IF ~HasKey(original_pairs, "hash") THEN "MissingHash"
    ELSE IF ~IsInt(LastValue(original_pairs, "auth_date")) THEN "InvalidAuthDate"
    ELSE ""

\* the TelegramAuthError raised before the hash is computed ("": none):
\* received_hash is None, auth_date_str is None, int(auth_date_str) fails
AuthError(original_pairs) ==
    IF ~HasKey(original_pairs, "hash") THEN "MissingHash"
    ELSE IF ~HasKey(original_pairs, "auth_date") THEN "MissingAuthDate"
    ELSE IF ~IsInt(LastValue(original_pairs, "auth_date")) THEN "InvalidAuthDate"
    ELSE ""

\* validate_init_data(init_data, bot_token) read at time t
ValidateInitData(init_data, token, t) ==
    LET original_pairs == ParseQsl(init_data)
        received_hash == LastValue(original_pairs, "hash")
        auth_date_str == LastValue(original_pairs, "auth_date")
    IN  IF AuthError(original_pairs) # ""
        THEN [is_valid |-> FALSE, reason |-> AuthError(original_pairs),
              parsed_data |-> ParsedAfterError(original_pairs)]
        ELSE LET time_diff == t - IntOf(auth_date_str)
                 is_outdated == IsOutdated(time_diff, MaxAgeSeconds)
                 hash_match == CalculatedHash(original_pairs, token) = received_hash
                 r == Result(hash_match, is_outdated)
             IN  [is_valid |-> r.is_valid, reason |-> r.reason,
                  parsed_data |-> ParsedData(original_pairs)]

----------------------------------------------------------------------------
(* validate_telegram_data (the FastAPI dependency) and the endpoints *)

HTTP_400_BAD_REQUEST == 400
HTTP_401_UNAUTHORIZED == 401

NoHeader == <<>>    \* the header is missing or empty

\* Rejects only when nothing was parsed.
RejectsWithoutFlag(is_valid, parsed_data) ==
    parsed_data.none \/ parsed_data.items = <<>>

\* if not is_valid or not parsed_data: raise HTTPException(401)
Rejects(is_valid, parsed_data) ==
    ~is_valid \/ parsed_data.none \/ parsed_data.items = <<>>

\* parsed_data.get('user'): the last user pair, None (here the empty string) without one
UserInfo(parsed_data) ==
    IF HasKey(parsed_data.items, "user") THEN LastValue(parsed_data.items, "user")
    ELSE StrValue(<<>>)

\* if not user_info or not isinstance(user_info, dict) or 'id' not in user_info
LacksUser(v) == ~v.dict \/ v.members = <<>> \/ ~HasId(v)

NoVerdict == [is_valid |-> FALSE, reason |-> "", parsed_data |-> NoParsedData]

\* the detail strings of the three HTTPExceptions of validate_telegram_data
MissingHeaderDetail == "X-Telegram-Init-Data header is missing"
InvalidAuthDetail == "invalid Telegram authentication data"
NoUserDetail == "no Telegram user information in initData"

\* Puts the reason of the refusal into the detail of the 401.
RaisedWithReason(v) ==
    IF Rejects(v.is_valid, v.parsed_data)
    THEN [status_code |-> HTTP_401_UNAUTHORIZED, detail |-> v.reason]
    ELSE IF LacksUser(UserInfo(v.parsed_data))
    THEN [status_code |-> HTTP_400_BAD_REQUEST, detail |-> NoUserDetail]
    ELSE [status_code |-> 0, detail |-> ""]

\* the HTTPException validate_telegram_data raises on the result v of
\* validate_init_data (status_code 0: none, parsed_data is returned)
Raised(v) ==
    IF Rejects(v.is_valid, v.parsed_data)
    THEN [status_code |-> HTTP_401_UNAUTHORIZED, detail |-> InvalidAuthDetail]
    ELSE IF LacksUser(UserInfo(v.parsed_data))
    THEN [status_code |-> HTTP_400_BAD_REQUEST, detail |-> NoUserDetail]
    ELSE [status_code |-> 0, detail |-> ""]

\* validate_telegram_data, with the validate_init_data call it makes
ValidateTelegramData ==
    /\ authPc = "received"
    /\ IF header = NoHeader
       THEN /\ verdict' = verdict
            /\ response' = HTTP_400_BAD_REQUEST
            /\ detail' = MissingHeaderDetail
            /\ authPc' = "rejected"
       ELSE LET v == ValidateInitData(header, bot_token, now)
            IN  /\ verdict' = v
                /\ response' = Raised(v).status_code
                /\ detail' = Raised(v).detail
                /\ authPc' = IF Raised(v).status_code = 0 THEN "passed" ELSE "rejected"
    /\ UNCHANGED <<header, bot_token, now>>
    /\ UNCHANGED <<resolveVars, cartVars, ordersVars, lifespanVars>>

\* get_user_cart and the other endpoints: user_info = telegram_data.get('user', {});
\* customer_id = await wc_service.find_or_create_customer_by_telegram_data(user_info)
EndpointResolve ==
    /\ authPc = "passed"
    /\ authPc' = "resolving"
    /\ UNCHANGED <<header, bot_token, now, verdict, response, detail>>
    /\ UNCHANGED <<resolveVars, cartVars, ordersVars, lifespanVars>>

----------------------------------------------------------------------------
(* The requests of the model *)

BotTokens == {"T1", "T2"}
Clock == {5000, 5001}

\* auth_date values around the age limit of 3600 s, one in the future, one malformed
AuthDates ==
    { <<"1","3","9","9">>, <<"1","4","0","0">>, <<"1","4","0","1">>,
      <<"4","9","9","9">>, <<"9","9","9","9">>, <<"1","4","x","0">> }

Q == <<"\"">>
PQ == <<"%", "2", "2">>         \* an escaped quotation mark
PPQ == <<"%", "2", "5", "2", "2">>      \* the escape of the text %22

\* {"id":1} and {"id":2}, plain and URL-encoded
UserPlain(d) == <<"{">> \o Q \o <<"i", "d">> \o Q \o <<":", d, "}">>
UserEncoded(d) ==
    <<"%","7","B">> \o PQ \o <<"i", "d">> \o PQ \o <<"%","3","A", d, "%","7","D">>

\* {"n":1}: an object without id
UserNoId == <<"%","7","B">> \o PQ \o <<"n">> \o PQ \o <<"%","3","A", "1", "%","7","D">>

\* {"id":1,"n":"%22"}: the name holds the three characters %22
UserPercentName ==
    <<"{">> \o Q \o <<"i", "d">> \o Q \o <<":", "1", ",">> \o Q \o <<"n">> \o Q \o <<":">>
        \o Q \o PPQ \o Q \o <<"}">>

\* {"id":1,"n":"%22,%22id%22:2,%22m%22:%22"}
UserPercentInjection ==
    <<"{">> \o Q \o <<"i", "d">> \o Q \o <<":", "1", ",">> \o Q \o <<"n">> \o Q \o <<":">>
        \o Q \o PPQ \o <<",">> \o PPQ \o <<"i", "d">> \o PPQ \o <<":", "2", ",">>
        \o PPQ \o <<"m">> \o PPQ \o <<":">> \o PPQ \o Q \o <<"}">>

\* {"id":"x"}: an id that is no number
UserStringId == <<"{">> \o Q \o <<"i", "d">> \o Q \o <<":">> \o Q \o <<"x">> \o Q \o <<"}">>

UserValues ==
    { UserPlain("1"), UserEncoded("1"), UserEncoded("2"), UserNoId, <<"7">>,
      UserPercentName, UserPercentInjection, UserStringId }

Pair(k, v) == <<[key |-> k, value |-> v]>>

\* the data fields of a request, in either order
DataFields ==
    { a \o u : a \in {<<>>} \cup {Pair("auth_date", d) : d \in AuthDates},
               u \in {<<>>} \cup {Pair("user", v) : v \in UserValues} }
    \cup { Pair("user", v) \o Pair("auth_date", d) : v \in UserValues, d \in AuthDates }

\* the hash a signer holding bot token k attaches when it signs the check
\* string of the fields as they stand in the query string
RawHash(fields, k) ==
    HexDigest(HmacSha256(HmacSha256("WebAppData", k), DataCheckString(fields)))

\* the hashes a request may carry for its fields: signed over the fields as
\* sent or as decoded, by either bot token, intact or with a character changed
Hashes(fields) ==
    LET good == {RawHash(fields, k) : k \in BotTokens}
                \cup {CalculatedHash(ParseQsl(fields), k) : k \in BotTokens}
    IN  good \cup {[h EXCEPT !.tamper = 1] : h \in good}

Headers ==
    {NoHeader} \cup DataFields
    \cup UNION { {f \o Pair("hash", h) : h \in Hashes(f)} : f \in DataFields }

ResolveIdle ==
    /\ directory = {}
    /\ nextId = 1
    /\ pc = [w \in Workers |-> "idle"]
    /\ user_info = [w \in Workers |-> NoUserInfo]
    /\ callOf = [w \in Workers |-> 0]
    /\ calls = <<>>

AuthIdle ==
    /\ header = NoHeader
    /\ bot_token = "T1"
    /\ now = 5000
    /\ authPc = "idle"
    /\ verdict = NoVerdict
    /\ response = 0
    /\ detail = ""

NoOrder == [id |-> 0, customer_id |-> 0]

\* no application is being started or stopped
LifespanIdle ==
    /\ app_module = "main"
    /\ webhook_url = FALSE
    /\ webhook = FALSE
    /\ lifespanPc = "off"
    /\ acquired = 0
    /\ released = 0
    /\ served = 0
    /\ body_raised = FALSE
    /\ shutdown_errors = {}
    /\ propagated = FALSE

NoOrderResponse == [status_code |-> 0, detail |-> "", body |-> NoOrder]

OrdersIdle ==
    /\ orders = {}
    /\ order_id = 0
    /\ current_customer_id = None
    /\ order_details = NoOrder
    /\ orderPc = "idle"
    /\ orderResponse = NoOrderResponse

----------------------------------------------------------------------------
(* get_user_cart: the catalog and the synchronisation loop *)

Products == {1, 2}

\* product 1 is a simple product; entries of product 2 carry variation 7
\* (0: the entry has no variation_id)
VariationOf(product_id) == IF product_id = 1 THEN 0 ELSE 7

\* a stored cart entry, as LineItemCreate admits it (quantity > 0)
CartEntries ==
    {[product_id |-> p, quantity |-> q, variation_id |-> VariationOf(p)] :
        p \in Products, q \in 1..MaxQty}

RECURSIVE SeqsUpTo(_, _)
SeqsUpTo(S, n) ==
    IF n = 0 THEN {<<>>}
    ELSE SeqsUpTo(S, n - 1) \cup
         {Append(q, e) : q \in {r \in SeqsUpTo(S, n - 1) : Len(r) = n - 1}, e \in S}

Carts == SeqsUpTo(CartEntries, MaxCartLen)

\* the states of one product: stock_status, and stock_quantity (None when
\* has_quantity is FALSE)
ProductStates(id) ==
    {[id |-> id, stock_status |-> "instock", has_quantity |-> FALSE, stock_quantity |-> 0]}
    \cup {[id |-> id, stock_status |-> "instock", has_quantity |-> TRUE, stock_quantity |-> q] :
            q \in (0 - 1)..MaxStock}
    \cup {[id |-> id, stock_status |-> "outofstock", has_quantity |-> TRUE, stock_quantity |-> 0]}
    \cup {[id |-> id, stock_status |-> "onbackorder", has_quantity |-> b, stock_quantity |-> 0] :
            b \in BOOLEAN}

\* the catalogs: every product is unpublished or in one of its states
Catalogs ==
    {c1 \cup c2 : c1 \in {{}} \cup {{x} : x \in ProductStates(1)},
                  c2 \in {{}} \cup {{x} : x \in ProductStates(2)}}

NoProduct == [id |-> 0, stock_status |-> "", has_quantity |-> FALSE, stock_quantity |-> 0]

\* product_ids = [item['product_id'] for item in saved_cart_items]
ProductIds(items) == {items[i].product_id : i \in DOMAIN items}

\* Asks get_products once for every entry of the cart.
ProductsRequestsPerItem(items) == [i \in DOMAIN items |-> {items[i].product_id}]

\* the get_products calls of get_user_cart: one,
\* get_products(include=product_ids, per_page=100)
ProductsRequests(items) == <<ProductIds(items)>>

\* GET products?include=...&status=publish: the published products among the
\* ids asked for
WcProducts(cat, include) == SortById({x \in cat : x.id \in include})

\* get_products: p.get('stock_status') in ('instock', 'onbackorder')
IsAvailable(x) == x.stock_status \in {"instock", "onbackorder"}

\* get_products: filtered_data
FilteredData(response_data) == SelectSeq(response_data, IsAvailable)

\* actual_products_map.get(product_id): None is NoProduct
ActualProduct(actual_products_data, product_id) ==
    IF \E i \in DOMAIN actual_products_data : actual_products_data[i].id = product_id
    THEN actual_products_data[CHOOSE i \in DOMAIN actual_products_data :
            /\ actual_products_data[i].id = product_id
            /\ \A j \in DOMAIN actual_products_data :
                    actual_products_data[j].id = product_id => j <= i]
    ELSE NoProduct

\* Takes a quantity equal to the stock for one above it.
ExceedsOrMeetsStock(item, actual_product) ==
    actual_product.has_quantity /\ item.quantity >= actual_product.stock_quantity

\* Lets one unit more than the stock through.
ExceedsStockOffByOne(item, actual_product) ==
    actual_product.has_quantity /\ item.quantity > actual_product.stock_quantity + 1

\* stock_quantity is not None and item['quantity'] > stock_quantity
ExceedsStock(item, actual_product) ==
    actual_product.has_quantity /\ item.quantity > actual_product.stock_quantity

\* Builds the cut-down entry anew from product_id and quantity, not from a copy.
SyncedItemWithoutVariation(item, actual_product) ==
    IF ExceedsStock(item, actual_product)
    THEN [item EXCEPT !.quantity = actual_product.stock_quantity, !.variation_id = 0]
    ELSE item

\* synced_item = item.copy(); synced_item['quantity'] = stock_quantity when it exceeds
SyncedItem(item, actual_product) ==
    IF ExceedsStock(item, actual_product)
    THEN [item EXCEPT !.quantity = actual_product.stock_quantity]
    ELSE item

Message(kind, product_id, n) == [kind |-> kind, product_id |-> product_id, quantity |-> n]

\* the for loop of get_user_cart over saved_cart_items
RECURSIVE Sync(_, _, _)
Sync(items, actual_products_data, acc) ==
    IF items = <<>> THEN acc
    ELSE LET item == items[1]
             actual_product == ActualProduct(actual_products_data, item.product_id)
             next ==
                IF actual_product = NoProduct
                THEN [acc EXCEPT !.sync_messages =
                            Append(@, Message("unavailable", item.product_id, 0)),
                                 !.is_changed = TRUE]
                ELSE IF actual_product.stock_status # "instock"
                THEN [acc EXCEPT !.sync_messages =
                            Append(@, Message("out_of_stock", item.product_id, 0)),
                                 !.is_changed = TRUE]
                ELSE IF ExceedsStock(item, actual_product)
                THEN [acc EXCEPT !.synced_cart_items =
                            Append(@, SyncedItem(item, actual_product)),
                                 !.sync_messages =
                            Append(@, Message("reduced", item.product_id,
                                              actual_product.stock_quantity)),
                                 !.is_changed = TRUE]
                ELSE [acc EXCEPT !.synced_cart_items =
                            Append(@, SyncedItem(item, actual_product))]
         IN  Sync(Tail(items), actual_products_data, next)

NotSynced == [synced_cart_items |-> <<>>, sync_messages |-> <<>>, is_changed |-> FALSE,
              ran |-> FALSE]

\* LineItemCreate.model_validate(i): quantity must be > 0
IsValidLineItem(i) == i.quantity > 0

NoResponse == [status |-> 0, items |-> <<>>, messages |-> <<>>]

HTTP_200_OK == 200
HTTP_404_NOT_FOUND == 404
HTTP_500_INTERNAL_SERVER_ERROR == 500
HTTP_503_SERVICE_UNAVAILABLE == 503

NoPrevious == [reconciled |-> FALSE, items |-> <<>>, catalog |-> {}, changed |-> FALSE]

NoUpdateResponse == [status |-> 0, items |-> <<>>, after_response |-> FALSE]

CartIdle ==
    /\ telegram_cart = <<>>
    /\ catalog = {}
    /\ lookup = "none"
    /\ cartPc = "idle"
    /\ saved_cart_items = <<>>
    /\ synced = NotSynced
    /\ cartResponse = NoResponse
    /\ background_tasks = <<>>
    /\ previous = NoPrevious
    /\ products_requests = <<>>
    /\ updateResponse = NoUpdateResponse

InitCart ==
    /\ telegram_cart \in Carts
    /\ catalog = {}
    /\ lookup = "none"
    /\ cartPc = "idle"
    /\ saved_cart_items = <<>>
    /\ synced = NotSynced
    /\ cartResponse = NoResponse
    /\ background_tasks = <<>>
    /\ previous = NoPrevious
    /\ products_requests = <<>>
    /\ updateResponse = NoUpdateResponse
    /\ ResolveIdle
    /\ AuthIdle
    /\ OrdersIdle
    /\ LifespanIdle

\* Takes no stored cart for empty, so that the lookup runs for it too.
NoSavedCartItemsNever(items) == FALSE

\* if not saved_cart_items
NoSavedCartItems(items) == items = <<>>

Respond(status, items, messages) ==
    /\ cartResponse' = [status |-> status, items |-> items, messages |-> messages]
    /\ cartPc' = "responded"

\* get_user_cart up to the stored cart: resolve the customer, get_customer_by_id,
\* read the telegram_cart meta value
GetUserCartLoad ==
    /\ cartPc = "idle"
    /\ \/ /\ Respond(HTTP_503_SERVICE_UNAVAILABLE, <<>>, <<>>)  \* no customer_id
          /\ saved_cart_items' = <<>>
       \/ /\ Respond(HTTP_404_NOT_FOUND, <<>>, <<>>)            \* no customer_data
          /\ saved_cart_items' = <<>>
       \/ /\ saved_cart_items' = telegram_cart
          /\ IF NoSavedCartItems(telegram_cart)
             THEN Respond(HTTP_200_OK, <<>>, <<>>)
             ELSE cartPc' = "loaded" /\ cartResponse' = NoResponse
    /\ synced' = NotSynced
    /\ UNCHANGED <<telegram_cart, catalog, lookup, background_tasks, previous,
                   products_requests, updateResponse>>
    /\ UNCHANGED <<resolveVars, authVars, ordersVars, lifespanVars>>

\* get_user_cart from get_products to the return: the batched lookup, the
\* loop, the scheduling of the save, the response
GetUserCartSync ==
    /\ cartPc = "loaded"
    /\ \E cat \in Catalogs, answer \in {"list", "not_a_list", "error"} :
        LET requests == ProductsRequests(saved_cart_items)
            response_data == WcProducts(cat, UNION {requests[i] : i \in DOMAIN requests})
            actual_products_data ==
                IF answer = "list" THEN FilteredData(response_data) ELSE <<>>
            result == Sync(saved_cart_items, actual_products_data,
                           [NotSynced EXCEPT !.ran = TRUE])
            raises == result.is_changed /\
                      \E i \in DOMAIN result.synced_cart_items :
                            ~IsValidLineItem(result.synced_cart_items[i])
        IN  /\ products_requests' = products_requests \o requests
            /\ lookup' = answer
            /\ catalog' = IF answer = "list"
                          THEN {response_data[i] : i \in DOMAIN response_data}
                          ELSE {}
            /\ IF answer = "error"
               THEN /\ synced' = NotSynced
                    /\ Respond(HTTP_500_INTERNAL_SERVER_ERROR, <<>>, <<>>)
                    /\ UNCHANGED background_tasks
               ELSE /\ synced' = result
                    /\ IF raises
                       THEN /\ Respond(HTTP_500_INTERNAL_SERVER_ERROR, <<>>, <<>>)
                            /\ UNCHANGED background_tasks
                       ELSE /\ Respond(HTTP_200_OK, result.synced_cart_items,
                                       result.sync_messages)
                            /\ background_tasks' =
                                 IF result.is_changed
                                 THEN Append(background_tasks, result.synced_cart_items)
                                 ELSE background_tasks
    /\ UNCHANGED <<telegram_cart, saved_cart_items, previous, updateResponse>>
    /\ UNCHANGED <<resolveVars, authVars, ordersVars, lifespanVars>>

\* the background task, run once the response has been sent:
\* wc_service.update_customer(customer_id, {telegram_cart: cart_to_save})
BackgroundUpdateCustomer ==
    /\ cartPc = "responded"
    /\ background_tasks # <<>>
    /\ \/ telegram_cart' = Head(background_tasks)
       \/ telegram_cart' = telegram_cart        \* update_customer swallows the error
    /\ background_tasks' = Tail(background_tasks)
    /\ UNCHANGED <<catalog, lookup, cartPc, saved_cart_items, synced, cartResponse,
                   previous, products_requests, updateResponse>>
    /\ UNCHANGED <<resolveVars, authVars, ordersVars, lifespanVars>>

\* the response has gone out and the background tasks have run; the next
\* request may start
GetUserCartDone ==
    /\ cartPc = "responded"
    /\ background_tasks = <<>>
    /\ cartPc' = "idle"
    /\ saved_cart_items' = <<>>
    /\ synced' = NotSynced
    /\ cartResponse' = NoResponse
    /\ catalog' = {}
    /\ lookup' = "none"
    /\ previous' =
            IF /\ cartResponse.status = HTTP_200_OK /\ lookup = "list"
               /\ telegram_cart = cartResponse.items
            THEN [reconciled |-> TRUE,
                  items |-> cartResponse.items,
                  catalog |-> {x \in catalog : x.id \in ProductIds(cartResponse.items)},
                  changed |-> synced.is_changed]
            ELSE NoPrevious
    /\ products_requests' = <<>>
    /\ updateResponse' = NoUpdateResponse
    /\ UNCHANGED <<telegram_cart, background_tasks>>
    /\ UNCHANGED <<resolveVars, authVars, ordersVars, lifespanVars>>

NextCart ==
    \/ GetUserCartLoad
    \/ GetUserCartSync
    \/ BackgroundUpdateCustomer
    \/ GetUserCartDone

SpecCart == InitCart /\ [][NextCart]_vars

\* the bodies of the update_user_cart requests: List[LineItemCreate], the empty
\* list and the carts of one entry
PostedCarts == SeqsUpTo(CartEntries, 1)

\* update_user_cart, from its resolve call to its response, with the PUT of
\* update_customer; it arrives before a get_user_cart request or after the
\* response of one, while the write that request scheduled may still be
\* waiting
UpdateUserCart ==
    /\ cartPc \in {"idle", "responded"}
    /\ \E cart_items \in PostedCarts,
          status \in {HTTP_200_OK, HTTP_500_INTERNAL_SERVER_ERROR,
                      HTTP_503_SERVICE_UNAVAILABLE} :
        /\ telegram_cart' = IF status = HTTP_200_OK THEN cart_items ELSE telegram_cart
        /\ updateResponse' =
                [status |-> status,
                 items |-> IF status = HTTP_200_OK THEN cart_items ELSE <<>>,
                 after_response |-> cartPc = "responded"]
    /\ previous' = NoPrevious
    /\ UNCHANGED <<catalog, lookup, cartPc, saved_cart_items, synced, cartResponse,
                   background_tasks, products_requests>>
    /\ UNCHANGED <<resolveVars, authVars, ordersVars, lifespanVars>>

NextCartUpdate ==
    \/ NextCart
    \/ UpdateUserCart

\* get_user_cart and update_user_cart requests of one customer
SpecCartUpdate == InitCart /\ [][NextCartUpdate]_vars

----------------------------------------------------------------------------
(* get_my_order_details *)

OrderIds == {1, 2}
CustomerIds == {1, 2}

\* the order stores: every order is absent, a guest order (customer_id 0) or
\* the order of a customer
OrderStores ==
    {o1 \cup o2 :
        o1 \in {{}} \cup {{[id |-> 1, customer_id |-> c]} : c \in {0} \cup CustomerIds},
        o2 \in {{}} \cup {{[id |-> 2, customer_id |-> c]} : c \in {0} \cup CustomerIds}}

CouldNotResolveDetail == "could not determine the user"
OrderFetchErrorDetail == "error while fetching the order"
OrderNotFoundDetail == "order not found"
InternalErrorDetail == "internal server error"

\* wc_service.get_order(order_id): the order when WooCommerce answers with
\* it, None (NoOrder) on a 404 or on a body that is no dict
GetOrder(store, id, answer) ==
    IF answer = "dict" /\ \E o \in store : o.id = id
    THEN CHOOSE o \in store : o.id = id
    ELSE NoOrder

\* Lets every requester through.
IsForeignOrderNever(details, customer_id) == FALSE

\* order_customer_id != current_customer_id
IsForeignOrder(details, customer_id) == details.customer_id # customer_id

InitOrders ==
    /\ orders \in OrderStores
    /\ order_id \in OrderIds
    /\ current_customer_id = None
    /\ order_details = NoOrder
    /\ orderPc = "received"
    /\ orderResponse = NoOrderResponse
    /\ ResolveIdle
    /\ AuthIdle
    /\ CartIdle
    /\ LifespanIdle

RespondOrder(status_code, detail_text, body) ==
    /\ orderResponse' = [status_code |-> status_code, detail |-> detail_text, body |-> body]
    /\ orderPc' = "responded"

\* get_my_order_details up to the requester's customer id:
\* current_customer_id = await find_or_create_customer_by_telegram_data(user_info)
GetMyOrderDetailsResolve ==
    /\ orderPc = "received"
    /\ \/ \E id \in {None} \cup CustomerIds :
            /\ current_customer_id' = id
            /\ IF id = None
               THEN RespondOrder(HTTP_401_UNAUTHORIZED, CouldNotResolveDetail, NoOrder)
               ELSE orderPc' = "resolved" /\ UNCHANGED orderResponse
       \/ /\ current_customer_id' = None      \* the resolve call raised
          /\ RespondOrder(HTTP_500_INTERNAL_SERVER_ERROR, InternalErrorDetail, NoOrder)
    /\ UNCHANGED <<orders, order_id, order_details>>
    /\ UNCHANGED <<resolveVars, authVars, cartVars, lifespanVars>>

\* get_my_order_details from get_order to the return
GetMyOrderDetailsFetch ==
    /\ orderPc = "resolved"
    /\ \E answer \in {"dict", "not_a_dict", "error"} :
        LET details == GetOrder(orders, order_id, answer)
        IN  IF answer = "error"
            THEN /\ order_details' = NoOrder
                 /\ RespondOrder(HTTP_503_SERVICE_UNAVAILABLE, OrderFetchErrorDetail, NoOrder)
            ELSE /\ order_details' = details
                 /\ IF details = NoOrder
                    THEN RespondOrder(HTTP_404_NOT_FOUND, OrderNotFoundDetail, NoOrder)
                    ELSE IF IsForeignOrder(details, current_customer_id)
                    THEN RespondOrder(HTTP_404_NOT_FOUND, OrderNotFoundDetail, NoOrder)
                    ELSE RespondOrder(HTTP_200_OK, "", details)
    /\ UNCHANGED <<orders, order_id, current_customer_id>>
    /\ UNCHANGED <<resolveVars, authVars, cartVars, lifespanVars>>

NextOrders == GetMyOrderDetailsResolve \/ GetMyOrderDetailsFetch

SpecOrders == InitOrders /\ [][NextOrders]_vars

----------------------------------------------------------------------------
(* lifespan: the WooCommerce HTTP client from startup to shutdown *)

\* app/main.py and app/main_v1.py each define the application and its lifespan
LifespanModules == {"main", "main_v1"}

MaxRequests == 2

InitLifespan ==
    /\ app_module \in LifespanModules
    /\ webhook_url \in BOOLEAN
    /\ webhook \in BOOLEAN
    /\ lifespanPc = "startup"
    /\ acquired = 0
    /\ released = 0
    /\ served = 0
    /\ body_raised = FALSE
    /\ shutdown_errors = {}
    /\ propagated = FALSE
    /\ ResolveIdle
    /\ AuthIdle
    /\ CartIdle
    /\ OrdersIdle

\* bot, dp = await initialize_bot(); woo_service = WooCommerceService();
\* app.state.woocommerce_service = woo_service
LifespanStartup ==
    /\ lifespanPc = "startup"
    /\ \/ /\ lifespanPc' = "exited"     \* initialize_bot raises RuntimeError
          /\ propagated' = TRUE
          /\ UNCHANGED acquired
       \/ /\ acquired' = acquired + 1
          /\ lifespanPc' = IF app_module = "main" THEN "webhook_setup" ELSE "serving"
          /\ UNCHANGED propagated
    /\ UNCHANGED <<app_module, webhook_url, webhook, released, served, body_raised,
                   shutdown_errors>>

\* main.py: the webhook is set when WEBHOOK_URL is configured and deleted when
\* it is not; every exception of the block is caught and logged
LifespanWebhookSetup ==
    /\ lifespanPc = "webhook_setup"
    /\ \/ webhook' = webhook_url
       \/ webhook' = webhook             \* the Telegram call raised
    /\ lifespanPc' = "serving"
    /\ UNCHANGED <<app_module, webhook_url, acquired, released, served, body_raised,
                   shutdown_errors, propagated>>

\* yield: a request is served with app.state.woocommerce_service
LifespanServe ==
    /\ lifespanPc = "serving"
    /\ served < MaxRequests
    /\ served' = served + 1
    /\ UNCHANGED <<app_module, webhook_url, webhook, lifespanPc, acquired, released,
                   body_raised, shutdown_errors, propagated>>

\* where lifespan goes on when the application body ends: main.py has the
\* yield in try/finally, main_v1.py runs its cleanup only after a yield that
\* returns
AfterBody(module, raises) ==
    IF module = "main" THEN "webhook_delete"
    ELSE IF raises THEN "exited" ELSE "close_client"

\* the application body ends: shutdown is requested, or an exception is thrown
\* into the yield
LifespanBodyEnds ==
    /\ lifespanPc = "serving"
    /\ \E raises \in BOOLEAN :
        /\ body_raised' = raises
        /\ lifespanPc' = AfterBody(app_module, raises)
        /\ propagated' = (AfterBody(app_module, raises) = "exited")
    /\ UNCHANGED <<app_module, webhook_url, webhook, acquired, released, served,
                   shutdown_errors>>

\* main.py, finally: get_webhook_info and delete_webhook inside try/except Exception
LifespanWebhookDelete ==
    /\ lifespanPc = "webhook_delete"
    /\ \/ /\ webhook' = FALSE
          /\ UNCHANGED shutdown_errors
       \/ /\ shutdown_errors' = shutdown_errors \cup {"webhook"}
          /\ UNCHANGED webhook
    /\ lifespanPc' = "close_client"
    /\ UNCHANGED <<app_module, webhook_url, acquired, released, served, body_raised,
                   propagated>>

\* await woo_service.close_client(): main.py catches what it raises, main_v1.py
\* lets it out before shutdown_bot
LifespanCloseClient ==
    /\ lifespanPc = "close_client"
    /\ released' = released + 1
    /\ \E raises \in BOOLEAN :
        IF ~raises
        THEN lifespanPc' = "shutdown_bot" /\ UNCHANGED <<shutdown_errors, propagated>>
        ELSE IF app_module = "main"
        THEN /\ lifespanPc' = "shutdown_bot"
             /\ shutdown_errors' = shutdown_errors \cup {"client"}
             /\ UNCHANGED propagated
        ELSE /\ lifespanPc' = "exited"
             /\ propagated' = TRUE
             /\ UNCHANGED shutdown_errors
    /\ UNCHANGED <<app_module, webhook_url, webhook, acquired, served, body_raised>>

\* await shutdown_bot(...): closes the bot session, logging what that raises;
\* after the finally clause the exception of the body goes on
LifespanShutdownBot ==
    /\ lifespanPc = "shutdown_bot"
    /\ lifespanPc' = "exited"
    /\ propagated' = body_raised
    /\ UNCHANGED <<app_module, webhook_url, webhook, acquired, released, served,
                   body_raised, shutdown_errors>>

NextLifespan ==
    /\ \/ LifespanStartup
       \/ LifespanWebhookSetup
       \/ LifespanServe
       \/ LifespanBodyEnds
       \/ LifespanWebhookDelete
       \/ LifespanCloseClient
       \/ LifespanShutdownBot
    /\ UNCHANGED <<resolveVars, authVars, cartVars, ordersVars>>

SpecLifespan == InitLifespan /\ [][NextLifespan]_vars

InitAuth ==
    /\ header \in Headers
    /\ bot_token \in BotTokens
    /\ now \in Clock
    /\ authPc = "received"
    /\ verdict = NoVerdict
    /\ response = 0
    /\ detail = ""
    /\ ResolveIdle
    /\ CartIdle
    /\ OrdersIdle
    /\ LifespanIdle

NextAuth == ValidateTelegramData \/ EndpointResolve

SpecAuth == InitAuth /\ [][NextAuth]_vars

----------------------------------------------------------------------------
(* The history of calls *)

FinishedCalls == {i \in DOMAIN calls : calls[i].done}

RecordsOf(dir, u) ==
    {r \in dir : r.email = CustomerEmail(u) \/ r.tg = ToString(u)}

\* the call of worker w returns (or raises): the worker is free again
Return(w, hist) ==
    /\ calls' = [hist EXCEPT ![callOf[w]].done = TRUE]
    /\ pc' = [pc EXCEPT ![w] = "idle"]
    /\ user_info' = [user_info EXCEPT ![w] = NoUserInfo]
    /\ callOf' = [callOf EXCEPT ![w] = 0]

\* the call of worker w goes on to its next directory call
Goto(w, hist, label) ==
    /\ calls' = hist
    /\ pc' = [pc EXCEPT ![w] = label]
    /\ UNCHANGED <<user_info, callOf>>

----------------------------------------------------------------------------
(* Initial state *)

\* a customer registered before the behaviour starts, with or without the
\* _telegram_user_id meta field
OldCustomer(id, u, withMeta) ==
    [id |-> id, email |-> CustomerEmail(u), username |-> CustomerUsername(u),
     tg |-> IF withMeta THEN ToString(u) ELSE "", tgname |-> ""]

InitDirectories ==
    { {}, {OldCustomer(1, 2, TRUE)}, {OldCustomer(1, 2, FALSE)} }

InitResolve ==
    /\ directory \in InitDirectories
    /\ nextId = Cardinality(directory) + 1
    /\ pc = [w \in Workers |-> "idle"]
    /\ user_info = [w \in Workers |-> NoUserInfo]
    /\ callOf = [w \in Workers |-> 0]
    /\ calls = <<>>
    /\ AuthIdle
    /\ CartIdle
    /\ OrdersIdle
    /\ LifespanIdle

----------------------------------------------------------------------------
(* find_or_create_customer_by_telegram_data, one action per directory call *)

\* entry: tg_user_id = user_info.get('id'); if not tg_user_id: return None
ResolveBegin(w) ==
    /\ pc[w] = "idle"
    /\ \A v \in Workers : v < w => pc[v] # "idle"     \* workers are interchangeable
    /\ Len(calls) < MaxCalls
    /\ \E id \in TgIds, name \in Usernames :
        LET call == [user |-> id, prior |-> FinishedCalls, done |-> id = 0,
                     unseen |-> RecordsOf(directory, id) = {},
                     creates |-> 0, requeries |-> 0, updates |-> 0,
                     faults |-> FALSE, result |-> None, raised |-> FALSE,
                     create_error |-> "", found |-> NoCustomer, timed_out |-> {}]
        IN  /\ calls' = Append(calls, call)
            /\ IF id = 0
               THEN UNCHANGED <<pc, user_info, callOf>>
               ELSE /\ user_info' = [user_info EXCEPT ![w] = [id |-> id, username |-> name]]
                    /\ callOf' = [callOf EXCEPT ![w] = Len(calls) + 1]
                    /\ pc' = [pc EXCEPT ![w] = "lookup"]
    /\ UNCHANGED <<directory, nextId>>

\* Step 1: existing_customer = await self.get_customer_by_email(customer_email)
ResolveLookup(w) ==
    /\ pc[w] = "lookup"
    /\ \E got \in GetCustomerByEmail(directory, CustomerEmail(user_info[w].id)) :
        LET c == got.customer
            seen == [calls EXCEPT ![callOf[w]].faults = got.failed,
                                  ![callOf[w]].found = c,
                                  ![callOf[w]].timed_out =
                                        IF got.failed THEN {"lookup"} ELSE {}]
        IN  IF Found(c)
            THEN IF HasTgIdMeta(c)
                 THEN Return(w, [seen EXCEPT ![callOf[w]].result = c.id])
                 ELSE Goto(w, [seen EXCEPT ![callOf[w]].result = c.id], "repair")
            ELSE Goto(w, seen, "create")
    /\ UNCHANGED <<directory, nextId>>

\* await self.update_customer(customer_id, {"meta_data": [_telegram_user_id]}); return customer_id
ResolveRepair(w) ==
    /\ pc[w] = "repair"
    /\ LET id == calls[callOf[w]].result
           noted == [calls EXCEPT ![callOf[w]].updates = @ + 1]
       IN  \/ /\ directory' = {IF r.id = id
                                THEN [r EXCEPT !.tg = ToString(user_info[w].id)]
                                ELSE r : r \in directory}
              /\ Return(w, noted)
           \/ /\ directory' = directory      \* update_customer swallows the error
              /\ Return(w, [noted EXCEPT ![callOf[w]].faults = TRUE])
    /\ UNCHANGED nextId

\* a directory error code that is no uniqueness conflict
OtherErrorCode == "woocommerce_rest_cannot_create"

\* Answers a conflict with another create.
AfterConflictCreatesAgain == "create"

\* the step after a detected race: final_attempt_customer = get_customer_by_email
AfterConflict == "requery"

\* Step 2: created_customer = await self.create_customer(new_customer_data)
\* and the except WooCommerceServiceError branch up to the retry lookup
ResolveCreate(w) ==
    /\ pc[w] = "create"
    /\ LET data == NewCustomerData(user_info[w])
           code == DirCreateConflict(directory, data)
           noted == [calls EXCEPT ![callOf[w]].creates = @ + 1]
           failed(kind) == [noted EXCEPT ![callOf[w]].create_error = kind]
       IN  \/ /\ code = ""          \* 201: the directory stores the customer
              /\ directory' = directory \cup
                    {[id |-> nextId, email |-> data.email, username |-> data.username,
                      tg |-> data.tg, tgname |-> data.tgname]}
              /\ nextId' = nextId + 1
              /\ Return(w, [noted EXCEPT ![callOf[w]].result = nextId])
           \/ /\ code # ""          \* 400 with a structured error body
              /\ \E wc_error \in ErrorPayloads(code) :
                    IF IsRaceConflict(WcErrorDetails(wc_error))
                    THEN Goto(w, failed("conflict"), AfterConflict)
                    ELSE Return(w, failed("conflict"))
              /\ UNCHANGED <<directory, nextId>>
           \/ \* another structured error of the directory: the else branch
              \* logs and the call returns None
              /\ \E wc_error \in ErrorPayloads(OtherErrorCode) :
                    LET refused == [failed("other") EXCEPT ![callOf[w]].faults = TRUE]
                    IN  IF IsRaceConflict(WcErrorDetails(wc_error))
                        THEN Goto(w, refused, AfterConflict)
                        ELSE Return(w, refused)
              /\ UNCHANGED <<directory, nextId>>
           \/ \* timeout or network error: details is None, the else branch logs
              \* and the call returns None
              /\ Return(w, [failed("timeout") EXCEPT ![callOf[w]].faults = TRUE,
                                                     ![callOf[w]].timed_out = @ \cup {"create"}])
              /\ UNCHANGED <<directory, nextId>>
           \/ \* HTTP error whose body is not a JSON object: details is the body
              \* text, and e.details.get raises AttributeError out of the handler
              /\ Return(w, [failed("unstructured") EXCEPT ![callOf[w]].faults = TRUE,
                                                          ![callOf[w]].raised = TRUE])
              /\ UNCHANGED <<directory, nextId>>

\* final_attempt_customer = await self.get_customer_by_email(customer_email)
ResolveRequery(w) ==
    /\ pc[w] = "requery"
    /\ \E got \in GetCustomerByEmail(directory, CustomerEmail(user_info[w].id)) :
        LET c == got.customer
            noted == [calls EXCEPT ![callOf[w]].requeries = @ + 1,
                                   ![callOf[w]].faults = @ \/ got.failed,
                                   ![callOf[w]].timed_out =
                                        IF got.failed THEN @ \cup {"requery"} ELSE @]
        IN  Return(w, IF Found(c) THEN [noted EXCEPT ![callOf[w]].result = c.id]
                      ELSE noted)
    /\ UNCHANGED <<directory, nextId>>

NextResolve ==
    /\ \E w \in Workers :
        \/ ResolveBegin(w)
        \/ ResolveLookup(w)
        \/ ResolveRepair(w)
        \/ ResolveCreate(w)
        \/ ResolveRequery(w)
    /\ UNCHANGED <<authVars, cartVars, ordersVars, lifespanVars>>

SpecResolve == InitResolve /\ [][NextResolve]_vars

----------------------------------------------------------------------------
(* Claims about find_or_create_customer_by_telegram_data *)

\* calls i and j overlap: neither had returned when the other started
Concurrent(i, j) == i \notin calls[j].prior /\ j \notin calls[i].prior

\* i and j are the only calls made for their user
OnlyCallsFor(u, i, j) == \A k \in DOMAIN calls : calls[k].user = u => k \in {i, j}

\* the directory answered every call of i (a conflict is an answer)
Answered(i) == calls[i].done /\ ~calls[i].faults

\* C1: two concurrent resolve calls for the same previously unseen Telegram
\* user id, against a directory that enforces uniqueness and answers the
\* second create with a uniqueness conflict, end with exactly one customer
\* for that user and with both calls returning that customer's id.
C1_RaceSafe ==
    \A i, j \in DOMAIN calls :
        ( /\ i < j
          /\ calls[i].user = calls[j].user
          /\ calls[i].user # 0
          /\ calls[i].unseen /\ calls[j].unseen
          /\ Concurrent(i, j)
          /\ OnlyCallsFor(calls[i].user, i, j)
          /\ Answered(i) /\ Answered(j) )
        => /\ Cardinality(RecordsOf(directory, calls[i].user)) = 1
           /\ \A r \in RecordsOf(directory, calls[i].user) :
                calls[i].result = r.id /\ calls[j].result = r.id

\* C2: in every reachable state at most one customer exists per Telegram
\* user id, whatever calls ran and whichever lookups failed.
C2_AtMostOneRecordPerUser ==
    \A u \in TgIds \ {0} : Cardinality(RecordsOf(directory, u)) <= 1

\* two calls for one user have returned, the lookup of one of them failed, both
\* issued a create, and the directory holds the user's customer
C2_Witness ==
    \E i, j \in DOMAIN calls :
        /\ i # j
        /\ calls[i].user = calls[j].user
        /\ calls[i].done /\ calls[j].done
        /\ calls[j].faults
        /\ calls[i].creates = 1 /\ calls[j].creates = 1
        /\ Cardinality(RecordsOf(directory, calls[i].user)) = 1

\* call j started after call i had returned, i was the first call for a user
\* the directory did not know, and the directory answered every directory call
\* of both
Sequential(i, j) ==
    /\ i \in calls[j].prior
    /\ calls[i].user = calls[j].user
    /\ calls[i].user # 0
    /\ calls[i].unseen
    /\ \A k \in DOMAIN calls \ {i} : calls[k].user = calls[i].user => i \in calls[k].prior
    /\ Answered(i) /\ Answered(j)

\* C3: of two sequential resolve calls for a previously unseen Telegram user
\* id, the first issues one create, the second issues none and returns the
\* id the first returned; exactly one customer exists for the user.
C3_SequentialIdempotent ==
    \A i, j \in DOMAIN calls :
        Sequential(i, j)
        => /\ calls[i].creates = 1
           /\ calls[j].creates = 0
           /\ calls[i].result # None
           /\ calls[j].result = calls[i].result
           /\ Cardinality(RecordsOf(directory, calls[i].user)) = 1

C3_Witness ==
    \E i, j \in DOMAIN calls :
        Sequential(i, j) /\ calls[i].creates = 1 /\ calls[j].result = calls[i].result

----------------------------------------------------------------------------
(* Claims about validate_init_data and validate_telegram_data *)

\* the dependency has run on a request that carried the header
Validated == authPc # "received" /\ header # NoHeader

Received == ParseQsl(header)

\* the received hash equals the HMAC computed by validate_init_data
HashMatches ==
    /\ HasKey(Received, "hash")
    /\ LastValue(Received, "hash") = CalculatedHash(Received, bot_token)

AuthDateIsInt == HasKey(Received, "auth_date") /\ IsInt(LastValue(Received, "auth_date"))

Age == now - IntOf(LastValue(Received, "auth_date"))

\* C4: validate_init_data reports success only for a matching hash and a
\* token that is not stale, and a request is handed to resolve only after
\* such a success.
C4_OnlyVerifiedReachResolve ==
    /\ verdict.is_valid => HashMatches /\ AuthDateIsInt /\ Age <= MaxAgeSeconds
    /\ authPc \in {"passed", "resolving"} =>
            verdict.is_valid /\ HashMatches /\ AuthDateIsInt /\ Age <= MaxAgeSeconds
    /\ (Validated /\ ~verdict.is_valid) => authPc = "rejected" /\ response = HTTP_401_UNAUTHORIZED

\* a verified request has been handed to find_or_create_customer_by_telegram_data
C4_Witness == authPc = "resolving" /\ verdict.is_valid /\ HashMatches

\* the hash was computed over the check string of the fields as they stand in
\* the token (still encoded), with the bot token of the server
SignedOverOriginalValues ==
    /\ HasKey(header, "hash")
    /\ LastValue(header, "hash") = RawHash(DataPairsForCheck(header), bot_token)

\* the user field of the token, decoded once
OriginalUser == ParseValueNoUnquote("user", UnquotePlus(LastValue(header, "user")))

\* C5: a token signed over its check string, with a fresh auth_date and a
\* user object that has an id, is accepted, and the user id handed on is the
\* original one.
C5_RoundTrip ==
    ( /\ Validated
      /\ SignedOverOriginalValues
      /\ AuthDateIsInt /\ Age <= MaxAgeSeconds
      /\ HasKey(header, "user") /\ HasId(OriginalUser) )
    => /\ verdict.is_valid
       /\ authPc \in {"passed", "resolving"}
       /\ IdOf(UserInfo(verdict.parsed_data)) = IdOf(OriginalUser)

WrongHash ==
    /\ Validated
    /\ HasKey(Received, "hash")
    /\ LastValue(Received, "hash") # CalculatedHash(Received, bot_token)

C7_StaleBoundary ==
    (Validated /\ HashMatches /\ AuthDateIsInt) =>
        /\ (verdict.reason = "Stale") = (Age > MaxAgeSeconds)
        /\ verdict.is_valid = (Age <= MaxAgeSeconds)
        /\ Age = MaxAgeSeconds + 1 => ~verdict.is_valid /\ verdict.reason = "Stale"
        /\ Age = MaxAgeSeconds => verdict.is_valid

\* a correctly signed token one second past the limit was refused as stale
C7_Witness ==
    /\ Validated /\ HashMatches /\ AuthDateIsInt
    /\ Age = MaxAgeSeconds + 1
    /\ verdict.reason = "Stale" /\ response = HTTP_401_UNAUTHORIZED

----------------------------------------------------------------------------
(* Cart reconciliation: C8 - C10 *)

\* get_user_cart answered 200 with a cart
Returned == cartPc = "responded" /\ cartResponse.status = HTTP_200_OK

\* get_user_cart got a product list from get_products and has answered
Reconciled == cartPc = "responded" /\ lookup = "list"

HasSnapshot(e) == \E x \in catalog : x.id = e.product_id

Snapshot(e) == CHOOSE x \in catalog : x.id = e.product_id

Orderable(e) ==
    HasSnapshot(e) /\ Snapshot(e).stock_status \in {"instock", "onbackorder"}

InStock(e) == HasSnapshot(e) /\ Snapshot(e).stock_status = "instock"

OverStock(e) == Snapshot(e).has_quantity /\ Snapshot(e).stock_quantity < e.quantity

IsRemoval(m) == m.kind \in {"unavailable", "out_of_stock"}

IsAdjustment(m) == m.kind = "reduced"

ProductsOf(items) == [i \in DOMAIN items |-> items[i].product_id]

\* C8: every entry of a cart get_user_cart returns names a product that the
\* products answer of that call holds with an orderable stock status, and its
\* quantity does not exceed that product's stock_quantity when it has one.
C8_ReturnedCartIsOrderable ==
    Returned =>
        \A i \in DOMAIN cartResponse.items :
            LET e == cartResponse.items[i]
            IN  /\ Orderable(e)
                /\ Snapshot(e).has_quantity => e.quantity <= Snapshot(e).stock_quantity

\* a returned cart with an entry cut down to the stock, another entry dropped
C8_Witness ==
    /\ Returned
    /\ Len(cartResponse.items) < Len(saved_cart_items)
    /\ \E i \in DOMAIN cartResponse.items, j \in DOMAIN saved_cart_items :
            /\ cartResponse.items[i].product_id = saved_cart_items[j].product_id
            /\ Snapshot(cartResponse.items[i]).has_quantity
            /\ cartResponse.items[i].quantity = Snapshot(cartResponse.items[i]).stock_quantity
            /\ cartResponse.items[i].quantity < saved_cart_items[j].quantity

\* C9: of a reconciled cart that is returned, the entries dropped are exactly
\* those whose product is missing from the products answer or is neither in
\* stock nor on backorder (an entry on backorder stays); every dropped entry
\* adds one removal message and marks the cart changed.
C9_DropsExactlyUnorderable ==
    (Returned /\ Reconciled) =>
        LET kept == SelectSeq(saved_cart_items, Orderable)
        IN  /\ ProductsOf(cartResponse.items) = ProductsOf(kept)
            /\ Len(SelectSeq(cartResponse.messages, IsRemoval))
                    = Len(saved_cart_items) - Len(kept)
            /\ Len(kept) < Len(saved_cart_items) => synced.is_changed

\* C10: a reconcile returns the entries of in-stock products with the quantity
\* set to stock_quantity where the product has one and the entry asked for
\* more, and unmodified otherwise; it adds one quantity message per entry cut
\* down, no other, and marks the cart changed when it cut one down.
C10_ClampsToStock ==
    Reconciled =>
        LET kept == SelectSeq(saved_cart_items, InStock)
            over == SelectSeq(kept, OverStock)
        IN  /\ cartResponse.status = HTTP_200_OK
            /\ cartResponse.items =
                    [i \in DOMAIN kept |->
                        IF OverStock(kept[i])
                        THEN [kept[i] EXCEPT !.quantity = Snapshot(kept[i]).stock_quantity]
                        ELSE kept[i]]
            /\ SelectSeq(cartResponse.messages, IsAdjustment) =
                    [i \in DOMAIN over |->
                        Message("reduced", over[i].product_id,
                                Snapshot(over[i]).stock_quantity)]
            /\ over # <<>> => synced.is_changed

\* get_user_cart read the customer and found no stored cart or an empty one
EmptyCartAnswered ==
    /\ cartPc = "responded"
    /\ saved_cart_items = <<>>
    /\ cartResponse.status \notin {HTTP_503_SERVICE_UNAVAILABLE, HTTP_404_NOT_FOUND}

\* C11: for a customer with no stored cart or an empty one get_user_cart
\* answers 200 with no items and no messages, marks nothing changed, asks
\* get_products nothing and schedules no write of the cart.
C11_EmptyCartNoLookupNoWrite ==
    EmptyCartAnswered =>
        /\ cartResponse = [status |-> HTTP_200_OK, items |-> <<>>, messages |-> <<>>]
        /\ ~synced.is_changed
        /\ ~synced.ran /\ lookup = "none" /\ catalog = {}
        /\ background_tasks = <<>>
        /\ telegram_cart = <<>>

\* the empty answer for a customer whose stored cart is empty
C11_Witness ==
    /\ EmptyCartAnswered
    /\ cartResponse.status = HTTP_200_OK
    /\ telegram_cart = <<>>

\* a get_user_cart request has answered which read the cart the request
\* before it returned, and got the products answer that request got
SecondReconcile ==
    /\ Reconciled
    /\ previous.reconciled
    /\ saved_cart_items = previous.items
    /\ catalog = previous.catalog

\* C12: when the cart returned by a first reconcile is the stored one (its
\* correction was written), a second reconcile against the same products
\* answer returns the same items with no message, marks nothing changed and
\* schedules no write.
C12_SecondReconcileChangesNothing ==
    SecondReconcile =>
        /\ cartResponse = [status |-> HTTP_200_OK, items |-> previous.items,
                           messages |-> <<>>]
        /\ ~synced.is_changed
        /\ background_tasks = <<>>
        /\ telegram_cart = previous.items

\* the first reconcile changed the cart and its write was stored before the
\* second one read the cart
C12_Witness ==
    /\ SecondReconcile
    /\ previous.changed
    /\ previous.items # <<>>
    /\ cartResponse.items = previous.items

\* get_user_cart has answered and its get_products request did not bring a
\* product list: an error status, a network error, a timeout, or a body that
\* is no list
LookupFailed == cartPc = "responded" /\ lookup \in {"not_a_list", "error"}

\* C13: when the products lookup of a reconcile fails, get_user_cart answers
\* with a failure, returns no cart, schedules no write, and the stored cart
\* stays as it was read.
C13_LookupFailureFailsReconcile ==
    LookupFailed =>
        /\ cartResponse.status # HTTP_200_OK
        /\ cartResponse.items = <<>> /\ cartResponse.messages = <<>>
        /\ background_tasks = <<>>
        /\ telegram_cart = saved_cart_items

----------------------------------------------------------------------------
(* Authentication failures: C14 *)

\* the token's hash is not the computed one (auth_date present and an integer)
SignatureMismatch == Validated /\ verdict.reason = "SignatureMismatch"

\* the token's hash is the computed one and its auth_date is too old
StaleToken == Validated /\ verdict.reason = "Stale"

\* C14: a request refused for a mismatching signature and a request refused
\* for a stale but correctly signed token get the one same response: status
\* 401 and the one detail text, while the logged reason tells them apart.
C14_UniformAuthFailure ==
    (SignatureMismatch \/ StaleToken) =>
        /\ authPc = "rejected"
        /\ response = HTTP_401_UNAUTHORIZED
        /\ detail = InvalidAuthDetail

\* a correctly signed token refused as stale
C14_Witness ==
    /\ StaleToken /\ HashMatches /\ Age > MaxAgeSeconds
    /\ response = HTTP_401_UNAUTHORIZED /\ detail = InvalidAuthDetail

----------------------------------------------------------------------------
(* Order details: C15 *)

OrderAnswered == orderPc = "responded"

\* the order asked for, as WooCommerce holds it
StoredOrder == GetOrder(orders, order_id, "dict")

\* get_order brought the order and it belongs to another customer or to none
ForeignOrderFetched ==
    /\ OrderAnswered
    /\ order_details # NoOrder
    /\ order_details.customer_id # current_customer_id

\* get_order answered that there is no such order
MissingOrderFetched ==
    /\ OrderAnswered
    /\ current_customer_id # None
    /\ StoredOrder = NoOrder
    /\ orderResponse.status_code # HTTP_503_SERVICE_UNAVAILABLE

NotFoundResponse ==
    [status_code |-> HTTP_404_NOT_FOUND, detail |-> OrderNotFoundDetail, body |-> NoOrder]

\* C15: get_my_order_details returns order data only when it is the order
\* asked for and its customer_id is the requester's resolved customer id; an
\* order of another customer is answered with the very response of an order
\* that does not exist; without a resolved customer id no order data goes out.
C15_OnlyOwnOrderReturned ==
    OrderAnswered =>
        /\ orderResponse.body # NoOrder =>
                /\ orderResponse.body = StoredOrder
                /\ current_customer_id # None
                /\ orderResponse.body.customer_id = current_customer_id
        /\ ForeignOrderFetched => orderResponse = NotFoundResponse
        /\ MissingOrderFetched => orderResponse = NotFoundResponse
        /\ current_customer_id = None => orderResponse.body = NoOrder

\* another customer's order was fetched and refused as not found
C15_Witness ==
    /\ ForeignOrderFetched
    /\ order_details.customer_id \in CustomerIds
    /\ orderResponse = NotFoundResponse

----------------------------------------------------------------------------
(* The creation race inside one resolve call: C16 - C18 *)

\* the records the directory holds under the email of call i's user
EmailRecords(i) == {r \in directory : r.email = CustomerEmail(calls[i].user)}

\* the create of call i was refused with a uniqueness conflict
CreateConflicted(i) == calls[i].create_error = "conflict"

\* the create of call i failed in another way
CreateFailedOtherwise(i) == calls[i].create_error \in {"other", "unstructured", "timeout"}

\* C16: a resolve call whose create was refused with the uniqueness conflict
\* on email or username (the code at the top level of the directory's error
\* body) queries the directory by email once more, and returns the id of the
\* record when that query finds one.
C16_ConflictRequeried ==
    \A i \in DOMAIN calls :
        (calls[i].done /\ CreateConflicted(i)) =>
            /\ calls[i].requeries = 1
            /\ (~calls[i].faults /\ EmailRecords(i) # {}) =>
                    \E r \in EmailRecords(i) : calls[i].result = r.id

\* C17: one resolve call issues at most one create and at most one re-query,
\* the re-query only after its create was refused with a conflict; when the
\* re-query finds no record the call returns no id.
C17_AtMostOneRetry ==
    \A i \in DOMAIN calls :
        /\ calls[i].creates <= 1
        /\ calls[i].requeries <= 1
        /\ calls[i].requeries = 1 => calls[i].creates = 1 /\ CreateConflicted(i)
        /\ (calls[i].done /\ calls[i].requeries = 1) =>
                /\ ~calls[i].raised
                /\ \/ calls[i].result = None
                   \/ \E r \in EmailRecords(i) : calls[i].result = r.id
                /\ EmailRecords(i) = {} => calls[i].result = None

\* a call that re-queried after a conflict, got no record and returned None
C17_Witness ==
    \E i \in DOMAIN calls :
        /\ calls[i].done
        /\ calls[i].creates = 1 /\ CreateConflicted(i)
        /\ calls[i].requeries = 1
        /\ calls[i].result = None

\* C18: a resolve call whose create failed with anything but a uniqueness
\* conflict (another structured error, an unstructured error body, a timeout)
\* ends with its failure result, None, without a re-query and without a second
\* create.
C18_OtherErrorsNotRetried ==
    \A i \in DOMAIN calls :
        (calls[i].done /\ CreateFailedOtherwise(i)) =>
            /\ calls[i].result = None /\ ~calls[i].raised
            /\ calls[i].requeries = 0
            /\ calls[i].creates = 1

----------------------------------------------------------------------------
(* Malformed tokens: C19 *)

\* validate_init_data refused the token for the given reason and the request
\* was answered 401
RefusedAs(reason) ==
    /\ ~verdict.is_valid /\ verdict.reason = reason
    /\ authPc = "rejected" /\ response = HTTP_401_UNAUTHORIZED

\* C19: a token without a hash pair is refused as MissingHash, one with a hash
\* but without an auth_date pair as MissingAuthDate, one whose auth_date is
\* not an integer as InvalidAuthDate, whatever its other fields and its hash
\* are; none of them is accepted.
C19_MalformedTokenRefused ==
    Validated =>
        /\ ~HasKey(Received, "hash") => RefusedAs("MissingHash")
        /\ (HasKey(Received, "hash") /\ ~HasKey(Received, "auth_date"))
                => RefusedAs("MissingAuthDate")
        /\ (HasKey(Received, "hash") /\ HasKey(Received, "auth_date") /\ ~AuthDateIsInt)
                => RefusedAs("InvalidAuthDate")

\* a token with a user and a fresh auth_date but no hash, refused as MissingHash
C19_Witness ==
    /\ Validated
    /\ ~HasKey(Received, "hash")
    /\ HasKey(Received, "user") /\ AuthDateIsInt /\ Age <= MaxAgeSeconds
    /\ RefusedAs("MissingHash")

----------------------------------------------------------------------------
(* Tokens without a usable user: C20 *)

\* the user of the request as validate_init_data parsed it
ParsedUser == UserInfo(verdict.parsed_data)

\* the parsed user is an object whose id is a number
HasNumericId(v) ==
    /\ HasId(v)
    /\ \A i \in DOMAIN v.members :
            (/\ v.members[i].key = <<"i", "d">>
             /\ \A j \in DOMAIN v.members : v.members[j].key = <<"i", "d">> => j <= i)
            => v.members[i].num

\* the signature matches and the token is fresh, but there is no user field,
\* or it is no object, or it has no numeric id
VerifiedWithoutUserId ==
    /\ Validated /\ HashMatches /\ AuthDateIsInt /\ Age <= MaxAgeSeconds
    /\ ~HasNumericId(ParsedUser)

\* C20: a correctly signed, fresh token without a user object holding a
\* numeric id is refused with the failure of its own (400, the missing user
\* detail), not the 401 of a bad or stale signature, and the request never
\* reaches resolve.
C20_NoUserIdRefused ==
    VerifiedWithoutUserId =>
        /\ authPc = "rejected"
        /\ response = HTTP_400_BAD_REQUEST
        /\ detail = NoUserDetail

----------------------------------------------------------------------------
(* The check string: C21 *)

\* the token's fields in another order
Reordered(pairs) ==
    {[i \in DOMAIN pairs |-> pairs[f[i]]] :
        f \in {g \in [DOMAIN pairs -> DOMAIN pairs] :
                    \A i, j \in DOMAIN pairs : g[i] = g[j] => i = j}}

DistinctKeys(pairs) ==
    \A i, j \in DOMAIN pairs : pairs[i].key = pairs[j].key => i = j

\* the check string the claim describes: every pair of the token but the
\* hash, with the value as sent, sorted by key, joined by newlines
OriginalCheckString == JoinLines(SortedPairs(SelectSeq(header, NotHashPair)))

\* C21: the hash is compared with the HMAC of the check string built from
\* every pair but the hash, sorted by key, with the values as they stand in
\* the token (not URL-decoded); so a token with distinct keys gets the same
\* result in whatever order its fields come.
C21_CheckStringOverOriginalValues ==
    (Validated /\ HasKey(header, "hash") /\ AuthDateIsInt) =>
        /\ (verdict.reason # "SignatureMismatch") =
                (LastValue(header, "hash") =
                    HexDigest(HmacSha256(HmacSha256("WebAppData", bot_token),
                                         OriginalCheckString)))
        /\ DistinctKeys(header) =>
                \A other \in Reordered(header) :
                    /\ ValidateInitData(other, bot_token, now).is_valid = verdict.is_valid
                    /\ ValidateInitData(other, bot_token, now).reason = verdict.reason

----------------------------------------------------------------------------
(* The returned items against the stored cart: C22 *)

\* the ways of picking Len(sub) positions of whole, in rising order
Embeddings(sub, whole) ==
    {f \in [DOMAIN sub -> DOMAIN whole] :
        \A i, j \in DOMAIN sub : i < j => f[i] < f[j]}

\* C22: the items get_user_cart returns are entries of the stored cart, in
\* the order of the stored cart, none of them twice and none added, each with
\* the product_id and variation_id of the stored entry it comes from.
C22_ReturnedIsSubsequence ==
    (Returned /\ synced.ran) =>
        \E f \in Embeddings(cartResponse.items, saved_cart_items) :
            \A i \in DOMAIN cartResponse.items :
                /\ cartResponse.items[i].product_id = saved_cart_items[f[i]].product_id
                /\ cartResponse.items[i].variation_id = saved_cart_items[f[i]].variation_id

\* of two stored entries of different products the first was dropped and the
\* second came back, cut down to the stock
C22_Witness ==
    /\ Returned /\ synced.ran
    /\ Len(saved_cart_items) = 2 /\ Len(cartResponse.items) = 1
    /\ saved_cart_items[1].product_id # saved_cart_items[2].product_id
    /\ cartResponse.items[1].product_id = saved_cart_items[2].product_id
    /\ cartResponse.items[1].quantity < saved_cart_items[2].quantity

----------------------------------------------------------------------------
(* One products lookup per reconcile: C23 *)

\* get_user_cart has answered for a stored cart that is not empty
NonEmptyCartAnswered == cartPc = "responded" /\ saved_cart_items # <<>>

\* what get_products handed back, from the products WooCommerce answered with
AnsweredProducts ==
    IF lookup = "list" THEN FilteredData(SortById(catalog)) ELSE <<>>

\* C23: a get_user_cart for a stored cart that is not empty asks get_products
\* exactly once, for exactly the product ids of the stored cart, however many
\* entries the cart has, and what it keeps, drops and cuts down is the loop's
\* outcome on that one answer.
C23_OneLookupForAllEntries ==
    NonEmptyCartAnswered =>
        /\ Len(products_requests) = 1
        /\ products_requests[1] = {saved_cart_items[i].product_id : i \in DOMAIN saved_cart_items}
        /\ synced.ran =>
                synced = Sync(saved_cart_items, AnsweredProducts,
                              [NotSynced EXCEPT !.ran = TRUE])

\* a cart of two entries of different products, one kept and one dropped on
\* the one answer
C23_Witness ==
    /\ NonEmptyCartAnswered /\ Returned
    /\ Len(saved_cart_items) = 2
    /\ saved_cart_items[1].product_id # saved_cart_items[2].product_id
    /\ Len(products_requests) = 1
    /\ Len(cartResponse.items) = 1

----------------------------------------------------------------------------
(* The scheduled write: C24 *)

\* the step of get_user_cart from the products answer to its response
ReconcileStep == cartPc = "loaded" /\ cartPc' = "responded" /\ synced'.ran

\* the step of a scheduled update_customer write
WriteStep == background_tasks # <<>> /\ background_tasks' = Tail(background_tasks)

\* C24: get_user_cart schedules a write of the telegram_cart meta value
\* exactly when the cart it computed differs from the stored one; the value
\* scheduled is the list of surviving entries, which replaces the stored list
\* when the write runs; when nothing changed nothing is scheduled and the
\* stored cart stays as it is.
C24_WriteIffChanged ==
    [][/\ ReconcileStep =>
            /\ (background_tasks' # background_tasks) =
                    (synced'.synced_cart_items # saved_cart_items)
            /\ background_tasks' # background_tasks =>
                    background_tasks' = Append(background_tasks, synced'.synced_cart_items)
            /\ telegram_cart' = telegram_cart
       /\ WriteStep =>
            telegram_cart' \in {Head(background_tasks), telegram_cart}]_vars

----------------------------------------------------------------------------
(* Positive quantities: C29 *)

PositiveQuantities(items) == \A i \in DOMAIN items : items[i].quantity >= 1

\* get_user_cart has answered and get_products had brought it an answer
CatalogAnswered == NonEmptyCartAnswered /\ lookup # "error"

\* C29: for a stored cart of positive quantities and any products answer,
\* also one with an in-stock product whose stock_quantity is 0 or negative,
\* get_user_cart completes with a cart, and every entry it returns, schedules
\* for writing or leaves stored has a quantity of at least 1.
C29_QuantitiesStayPositive ==
    CatalogAnswered =>
        /\ cartResponse.status = HTTP_200_OK
        /\ PositiveQuantities(cartResponse.items)
        /\ \A t \in DOMAIN background_tasks : PositiveQuantities(background_tasks[t])
        /\ PositiveQuantities(telegram_cart)

----------------------------------------------------------------------------
(* A cart saved after the reconcile answered: C30 *)

\* an update_user_cart that came after the get_user_cart response has saved
\* its cart, and the write that get_user_cart scheduled has run
SavedAfterResponse ==
    /\ cartPc = "responded"
    /\ background_tasks = <<>>
    /\ updateResponse.after_response
    /\ updateResponse.status = HTTP_200_OK

\* C30: when update_user_cart saves a cart after get_user_cart has answered,
\* the write get_user_cart scheduled does not replace it: with both requests
\* and the scheduled write done, the stored cart is the one update_user_cart
\* saved.
C30_LaterSaveSurvives ==
    SavedAfterResponse => telegram_cart = updateResponse.items

----------------------------------------------------------------------------
(* The _telegram_user_id meta field: C25 *)

\* call i has returned and its lookup found a customer
FoundExisting(i) == calls[i].done /\ calls[i].found.id # 0

\* call i has returned the customer its create stored
CreatedNew(i) ==
    calls[i].done /\ calls[i].creates = 1 /\ calls[i].create_error = ""

\* C25: a resolve call whose lookup finds a customer without the
\* _telegram_user_id meta field issues exactly one update_customer and returns
\* the customer's id whether the update is stored or fails; when the field is
\* there it issues no update; and every customer a resolve call creates holds
\* the field with the user id of its email.
C25_RepairsMissingMeta ==
    \A i \in DOMAIN calls :
        /\ FoundExisting(i) =>
                /\ calls[i].result = calls[i].found.id /\ ~calls[i].raised
                /\ calls[i].updates = IF calls[i].found.tg = "" THEN 1 ELSE 0
                /\ calls[i].creates = 0
        /\ CreatedNew(i) =>
                /\ calls[i].updates = 0
                /\ \E r \in directory :
                        /\ r.id = calls[i].result
                        /\ r.email = CustomerEmail(calls[i].user)
                        /\ r.tg = ToString(calls[i].user)

\* one call found a customer without the field and returned its id although
\* its update failed, and another call created a customer
C25_Witness ==
    \E i, j \in DOMAIN calls :
        /\ FoundExisting(i) /\ calls[i].found.tg = ""
        /\ calls[i].updates = 1 /\ calls[i].faults
        /\ calls[i].result = calls[i].found.id
        /\ \E r \in directory : r.id = calls[i].result /\ r.tg = ""
        /\ CreatedNew(j)

----------------------------------------------------------------------------
(* Timeouts: C26 *)

\* call i has returned and one of its directory calls (lookup, create,
\* re-query) got no answer in time
TimedOut(i) == calls[i].done /\ calls[i].timed_out # {}

\* C26: a resolve call whose lookup, create or re-query times out ends with
\* the failure result, None, and does not go on as if the directory had
\* answered: after a lookup that timed out it creates nothing.
C26_TimeoutFailsResolve ==
    \A i \in DOMAIN calls :
        TimedOut(i) =>
            /\ calls[i].result = None
            /\ "lookup" \in calls[i].timed_out => calls[i].creates = 0

----------------------------------------------------------------------------
(* No exception out of resolve: C28 *)

\* C28: whatever its directory calls answer (a customer, a uniqueness
\* conflict, another structured error, an error body that is no JSON object,
\* a timeout, a network error), a resolve call returns a customer id or None
\* and raises nothing to its caller.
C28_ResolveNeverRaises ==
    \A i \in DOMAIN calls :
        calls[i].done =>
            /\ ~calls[i].raised
            /\ calls[i].result = None \/ \E r \in directory : r.id = calls[i].result

----------------------------------------------------------------------------
(* The HTTP client over the life of the application: C27 *)

Started == lifespanPc \in {"webhook_setup", "serving", "webhook_delete", "close_client",
                           "shutdown_bot"}

\* C27: lifespan creates the WooCommerce HTTP client exactly once, at startup;
\* once created, the client is closed by the time lifespan is left, also when
\* the application body raised and when the webhook deletion of the shutdown
\* failed; and it is not closed before the application has stopped serving.
C27_ClientAcquiredOnceReleasedAlways ==
    /\ acquired <= 1
    /\ Started => acquired = 1
    /\ lifespanPc \in {"startup", "webhook_setup", "serving"} => released = 0
    /\ lifespanPc = "exited" => released = acquired

====
